---------------------------- MODULE Spec2Model ----------------------------
(***************************************************************************)
(* A model of the CSE course chatbot: the catalog loader, the chain of     *)
(* query handlers (identifier, title, semantic), the retrieval strategies, *)
(* the answer providers and the controller that wires and hot-swaps them.  *)
(* Strings the code inspects character by character (queries, ids, titles, *)
(* answers) are sequences of one-character strings.  Strategy and provider *)
(* names are only used as dictionary keys and stay TLA+ strings.           *)
(***************************************************************************)
EXTENDS Integers, Sequences, FiniteSets, TLC

VARIABLES
    file,           \* the catalog source at data_path: MissingFile or its lines
    phase,          \* "new" | "ready" (constructed) | "aborted" (__init__ raised)
    courses,        \* CSEChatbot._courses
    store,          \* CSEChatbot._store: the content store object, or None
    strategy,       \* CSEChatbot.strategy: a reference to a strategy object
    provider,       \* CSEChatbot.provider: a reference to a provider object
    chain,          \* CSEChatbot._handler_chain: the head handler
    handlers,       \* the handler objects: _successor, _courses (+ strategy, provider)
    last,           \* what the most recent call did: its input, output, prints, calls
    main            \* main(): where it is, the line read, the ask it is in

vars == <<file, phase, courses, store, strategy, provider, chain, handlers, last, main>>

\* None where a handler is expected (handlers are referred to by name)
None == "None"

\* None where an object (strategy, provider, content store) is expected
NoneObj == [cls |-> "NoneType"]

\* An Optional[str]: None, or a string
NoStr == [some |-> FALSE]

Str(s) == [some |-> TRUE, val |-> s]

\* bool(x) of an Optional[str]: None and "" are false
TruthyStr(r) == r.some /\ Len(r.val) > 0

\* bool(x) of an object reference: the classes define neither __bool__ nor __len__
TruthyObj(o) == o # NoneObj

----------------------------------------------------------------------------
(* Bounds of the model. *)

\* lines in a catalog source
MaxLines == 2
\* pieces a routed query is put together from
MaxParts == 3

----------------------------------------------------------------------------
(* Characters and the str operations the code uses. *)

Digits == {"0","1","2","3","4","5","6","7","8","9"}

LowerCase == <<"a","b","c","d","e","f","g","h","i","j","k","l","m","n","o","p","q","r","s","t","u","v","w","x","y","z">>

UpperCase == <<"A","B","C","D","E","F","G","H","I","J","K","L","M","N","O","P","Q","R","S","T","U","V","W","X","Y","Z">>

\* \w of the re module, on the characters of the model
WordChars ==
    Digits \cup {"_"} \cup {LowerCase[i] : i \in 1..26} \cup {UpperCase[i] : i \in 1..26}

IsWord(c) == c \in WordChars

\* the lower case letter of every upper case letter
LowerOf ==
    [c \in {UpperCase[i] : i \in 1..26} |-> LowerCase[CHOOSE i \in 1..26 : c = UpperCase[i]]]

\* str.lower() on one character
LowerChar(c) == IF c \in DOMAIN LowerOf THEN LowerOf[c] ELSE c

\* str.lower()
Lower(s) == [i \in 1..Len(s) |-> LowerChar(s[i])]

\* needle in hay   (Python's substring test; "" is in every string)
Contains(hay, needle) ==
    \E i \in 0..(Len(hay) - Len(needle)) :
        SubSeq(hay, i + 1, i + Len(needle)) = needle

\* s.startswith(prefix)
StartsWith(s, prefix) == Len(s) >= Len(prefix) /\ SubSeq(s, 1, Len(prefix)) = prefix

\* what str.strip() and str.split() take for white space
WhiteSpace == {" ", "\t"}

\* s.strip()
Strip(s) ==
    LET inked == {i \in 1..Len(s) : s[i] \notin WhiteSpace}
    IN  IF inked = {} THEN <<>>
        ELSE SubSeq(s, CHOOSE i \in inked : \A j \in inked : i <= j,
                       CHOOSE i \in inked : \A j \in inked : j <= i)

\* s.split()[-1], for s that is not all white space
LastWord(s) ==
    LET t == Strip(s)
        gaps == {i \in 1..Len(t) : t[i] \in WhiteSpace}
    IN  IF gaps = {} THEN t
        ELSE SubSeq(t, (CHOOSE i \in gaps : \A j \in gaps : j <= i) + 1, Len(t))

\* s[:n]
Take(s, n) == SubSeq(s, 1, IF Len(s) < n THEN Len(s) ELSE n)

RECURSIVE Join(_, _)
\* sep.join(parts)
Join(sep, parts) ==
    IF Len(parts) = 0 THEN <<>>
    ELSE IF Len(parts) = 1 THEN parts[1]
    ELSE parts[1] \o sep \o Join(sep, Tail(parts))

----------------------------------------------------------------------------
(* re.search(r'\b([1-4]\d{3})\b', query) *)

\* digits of the id pattern after the leading [1-4]
IdTailLen == 3

\* \b between s[p] and s[p+1]  (p = 0: the start, p = Len(s): the end)
WordBoundary(s, p) ==
    LET before == p >= 1 /\ IsWord(s[p])
        after  == p < Len(s) /\ IsWord(s[p + 1])
    IN  before # after

\* IdPatternAt gone wrong: any digit may lead, as if the pattern were \b(\d{4})\b
IdPatternAtAnyRange(s, i) ==
    /\ i >= 1
    /\ i + IdTailLen <= Len(s)
    /\ WordBoundary(s, i - 1)
    /\ \A j \in i..(i + IdTailLen) : s[j] \in Digits
    /\ WordBoundary(s, i + IdTailLen)

\* the pattern matches with its group starting at position i
IdPatternAt(s, i) ==
    /\ i >= 1
    /\ i + IdTailLen <= Len(s)
    /\ WordBoundary(s, i - 1)
    /\ s[i] \in {"1","2","3","4"}
    /\ \A j \in (i + 1)..(i + IdTailLen) : s[j] \in Digits
    /\ WordBoundary(s, i + IdTailLen)

\* IdSearch gone wrong: the rightmost match instead of the leftmost
IdSearchRightmost(s) ==
    IF \E i \in 1..Len(s) : IdPatternAt(s, i)
    THEN LET m == CHOOSE i \in 1..Len(s) :
                    /\ IdPatternAt(s, i)
                    /\ \A j \in (i + 1)..Len(s) : ~IdPatternAt(s, j)
         IN  Str(SubSeq(s, m, m + IdTailLen))
    ELSE NoStr

\* match.group(1) of the leftmost match, or None
IdSearch(s) ==
    IF \E i \in 1..Len(s) : IdPatternAt(s, i)
    THEN LET m == CHOOSE i \in 1..Len(s) :
                    /\ IdPatternAt(s, i)
                    /\ \A j \in 1..(i - 1) : ~IdPatternAt(s, j)
         IN  Str(SubSeq(s, m, m + IdTailLen))
    ELSE NoStr

----------------------------------------------------------------------------
(* models.Course and the catalog source. *)

Course(id, title, description) ==
    [id |-> id, title |-> title, description |-> description]

\* The source at data_path: absent, or a file of lines.
MissingFile == [exists |-> FALSE]

FileOf(lines) == [exists |-> TRUE, lines |-> lines]

\* A line of the source is a JSON object with the three fields, or one of the
\* lines json.loads or the field lookups reject.
RecordLine(c) == [kind |-> "record", data |-> c]

BlankLine == [kind |-> "blank"]

GarbageLine == [kind |-> "notjson"]

NoTitleLine == [kind |-> "record", data |-> [id |-> <<"2","3","2","0">>, description |-> <<"z">>]]

CourseA == Course(<<"4","3","6","1">>, <<"J","k">>, <<"v">>)

CourseB == Course(<<"2","3","2","0">>, <<"K">>, <<"z">>)

CourseC == Course(<<"4","3","6","1">>, <<"Z","h">>, <<"g">>)

\* a course whose id is outside the range of the id pattern
CourseD == Course(<<"5","3","6","1">>, <<"Y">>, <<"w">>)

\* lines no record is loaded from
BadLines == {BlankLine, GarbageLine, NoTitleLine}

Lines == {RecordLine(CourseA), RecordLine(CourseB)} \cup BadLines

\* with a second course of id 4361
RouteLines == Lines \cup {RecordLine(CourseC)}

\* the lines of catalogs that hold a course of id 5361
RangeLines == {RecordLine(CourseA), RecordLine(CourseD)}

RECURSIVE SeqsUpTo(_, _)
SeqsUpTo(S, n) ==
    IF n = 0 THEN {<<>>}
    ELSE LET shorter == SeqsUpTo(S, n - 1)
         IN  shorter \cup {Append(s, x) : s \in {t \in shorter : Len(t) = n - 1}, x \in S}

Files == {MissingFile} \cup {FileOf(ls) : ls \in SeqsUpTo(Lines, MaxLines)}

RouteFiles == {MissingFile} \cup {FileOf(ls) : ls \in SeqsUpTo(RouteLines, MaxLines)}

RangeFiles == {MissingFile} \cup {FileOf(ls) : ls \in SeqsUpTo(RangeLines, MaxLines)}

\* json.loads(line.strip()) followed by the three data[...] lookups:
\* the exception the line raises, or "none"
LineError(line) ==
    IF line.kind # "record" THEN "JSONDecodeError"
    ELSE IF {"id", "title", "description"} \subseteq DOMAIN line.data THEN "none"
    ELSE "KeyError"

RECURSIVE LoadLines(_, _)
\* the for loop of _load_courses over the remaining lines
LoadLines(lines, acc) ==
    IF Len(lines) = 0 THEN [courses |-> acc, raised |-> "none"]
    ELSE LET err == LineError(Head(lines))
         IN  IF err # "none" THEN [courses |-> acc, raised |-> err]
             ELSE LoadLines(Tail(lines),
                            Append(acc, Course(Head(lines).data.id,
                                               Head(lines).data.title,
                                               Head(lines).data.description)))

\* print(f"..."): the format and the value put into it
Message(fmt, arg) == [fmt |-> fmt, arg |-> arg]

DataPath == "courses.jsonl"

\* CSEChatbot._load_courses: only FileNotFoundError is caught
LoadCourses(f) ==
    IF ~f.exists
    THEN [courses |-> <<>>, raised |-> "none", printed |-> <<Message("Warning: {path} not found.", DataPath)>>]
    ELSE LoadLines(f.lines, <<>>) @@ [printed |-> <<>>]

----------------------------------------------------------------------------
(* Objects.  A reference is the object itself tagged with its identity oid: *)
(* two references are the same object exactly when they are equal.  A new   *)
(* object gets an identity no live object of its kind has.                  *)

FreshOid(live) ==
    CHOOSE i \in 1..(Cardinality(live) + 1) :
        /\ i \notin live
        /\ \A j \in 1..(i - 1) : j \in live

\* TopNStrategy.__init__ default n
DefaultN == 3

\* WindowStrategy.__init__ default window_size
DefaultWindowSize == 1

NewStrategy(cls, oid) ==
    CASE cls = "TopNStrategy"   -> [cls |-> cls, oid |-> oid, n |-> DefaultN]
      [] cls = "WindowStrategy" -> [cls |-> cls, oid |-> oid, window_size |-> DefaultWindowSize]
      [] OTHER                  -> [cls |-> cls, oid |-> oid]

NewProvider(cls, oid) == [cls |-> cls, oid |-> oid]

\* the dict of set_strategy
strategies ==
    [top_n |-> "TopNStrategy", window |-> "WindowStrategy",
     document |-> "DocumentStrategy", hierarchical |-> "HierarchicalStrategy"]

\* the dict of set_provider
providers ==
    [ollama |-> "OllamaProvider", openai |-> "OpenAIProvider", gemini |-> "GeminiProvider"]

----------------------------------------------------------------------------
(* The content store (rag4p InternalContentStore, an external collaborator) *)

\* Chunk(...) of _index_courses
ChunkOf(course) ==
    [document_id |-> course.id, chunk_id |-> <<"0">>, total_chunks |-> 1,
     chunk_text |-> course.title \o <<":"," ">> \o course.description,
     properties |-> [title |-> course.title, id |-> course.id]]

\* the chunks list of _index_courses
IndexChunks(cs) == [i \in 1..Len(cs) |-> ChunkOf(cs[i])]

\* InternalContentStore(embedder=...)
NewStore == [cls |-> "InternalContentStore", chunks |-> <<>>]

\* the orders in which the store can rank n chunks for a query
Rankings(n) ==
    {p \in [1..n -> 1..n] : \A i, j \in 1..n : p[i] = p[j] => i = j}

\* A call that reaches a service outside the program can end in several ways:
\* the operators below give the set of ways a call can end, each with the
\* exception raised ("none": it returned), the calls made and the result.

\* content_store.find_relevant_chunks(query, k): the k best ranked chunks,
\* or the embedding service's failure; the call is logged with how it ended
FindRelevantChunks(cs, query, k) ==
    LET call(raised, returned) ==
            [fn |-> "find_relevant_chunks", query |-> query, k |-> k,
             raised |-> raised, returned |-> returned]
    IN  {[raised |-> "ConnectionError", calls |-> <<call("ConnectionError", <<>>)>>,
          result |-> <<>>]}
        \cup
        {LET found == Take([i \in 1..Len(cs.chunks) |-> cs.chunks[ranking[i]]], k)
         IN  [raised |-> "none", calls |-> <<call("none", found)>>, result |-> found]
            : ranking \in Rankings(Len(cs.chunks))}

----------------------------------------------------------------------------
(* strategies.py *)

\* K of WindowStrategy.retrieve
WindowK == 3

\* K of DocumentStrategy.retrieve
DocumentK == 5

\* K of HierarchicalStrategy.retrieve
HierarchicalK == 3

\* StrategyK gone wrong: every variant asks for the default count
StrategyKDefault(s) == DefaultN

\* the result count a strategy object asks the store for
StrategyK(s) ==
    CASE s.cls = "TopNStrategy"         -> s.n
      [] s.cls = "WindowStrategy"       -> WindowK
      [] s.cls = "DocumentStrategy"     -> DocumentK
      [] s.cls = "HierarchicalStrategy" -> HierarchicalK

\* Retrieve gone wrong: the store is looked up without the test for None
RetrieveStoreUntested(s, query, cs) ==
    LET call(raised, context) ==
            [fn |-> "retrieve", cls |-> s.cls, oid |-> s.oid, raised |-> raised,
             context |-> context]
    IN  IF cs = NoneObj
        THEN {[raised |-> "AttributeError", calls |-> <<call("AttributeError", <<>>)>>,
               result |-> <<>>]}
        ELSE {[r EXCEPT !.calls = <<call(r.raised, r.result)>> \o @]
                : r \in FindRelevantChunks(cs, query, StrategyK(s))}

\* <strategy>.retrieve(query, content_store); the call is logged with how it
\* ended and the context it returned
Retrieve(s, query, cs) ==
    LET call(raised, context) ==
            [fn |-> "retrieve", cls |-> s.cls, oid |-> s.oid, raised |-> raised,
             context |-> context]
    IN  IF cs = NoneObj
        THEN {[raised |-> "none", calls |-> <<call("none", <<>>)>>, result |-> <<>>]}
        ELSE {[r EXCEPT !.calls = <<call(r.raised, r.result)>> \o @]
                : r \in FindRelevantChunks(cs, query, StrategyK(s))}

----------------------------------------------------------------------------
(* providers.py *)

S_TagOllama == <<"[","O","l","l","a","m","a","]"," ">>

S_TagOpenAI == <<"[","O","p","e","n","A","I","]"," ">>

S_TagGemini == <<"[","G","e","m","i","n","i","]"," ">>

S_AnswerFor == <<"A","n","s","w","e","r"," ","f","o","r"," ","'">>

S_BasedOn == <<"'"," ","b","a","s","e","d"," ","o","n",":"," ">>

S_NoContext == <<"N","o"," ","c","o","n","t","e","x","t">>

S_Ellipsis == <<".",".",".">>

\* characters of str(context) the simulated providers keep
PreviewLen == 100

\* str(context) of a list of chunks.  The text of one chunk is the external
\* Chunk class's; it is modelled as naming the chunk's document.
StrOfContext(context) ==
    <<"[">> \o Join(<<","," ">>, [i \in 1..Len(context) |->
                              <<"C","h","u","n","k","(">> \o context[i].document_id \o <<")">>]) \o <<"]">>

\* context_preview of the simulated providers
ContextPreview(context) ==
    IF Len(context) > 0 THEN Take(StrOfContext(context), PreviewLen) ELSE S_NoContext

\* the tag a provider class puts in front of its answers
ProviderTag(cls) ==
    CASE cls = "OllamaProvider" -> S_TagOllama
      [] cls = "OpenAIProvider" -> S_TagOpenAI
      [] cls = "GeminiProvider" -> S_TagGemini

\* what the external generator can answer
GenTexts == {<<>>, <<"y","e","s">>}

\* OllamaProvider.generate_answer; the call is logged with the answer it
\* returned
OllamaGenerate(p, question, context) ==
    LET context_text == Join(<<"\n">>, [i \in 1..Len(context) |-> context[i].chunk_text])
        call(answer) == [fn |-> "generate_answer", cls |-> p.cls, oid |-> p.oid,
                         context |-> context, answer |-> answer]
        gen  == [fn |-> "generator.generate_answer", question |-> question,
                 context_text |-> context_text]
    IN  {[raised |-> "ConnectionError", calls |-> <<call(NoStr), gen>>, result |-> <<>>]}
        \cup
        {[raised |-> "none", calls |-> <<call(Str(S_TagOllama \o answer)), gen>>,
          result |-> S_TagOllama \o answer]
            : answer \in GenTexts}

\* OpenAIProvider.generate_answer and GeminiProvider.generate_answer
SimulatedGenerate(p, question, context) ==
    LET answer == ProviderTag(p.cls) \o S_AnswerFor \o question \o S_BasedOn
                  \o ContextPreview(context) \o S_Ellipsis
    IN  {[raised |-> "none",
          calls |-> <<[fn |-> "generate_answer", cls |-> p.cls, oid |-> p.oid,
                       context |-> context, answer |-> Str(answer)]>>,
          result |-> answer]}

\* <provider>.generate_answer(question, context)
GenerateAnswer(p, question, context) ==
    IF p.cls = "OllamaProvider"
    THEN OllamaGenerate(p, question, context)
    ELSE SimulatedGenerate(p, question, context)

----------------------------------------------------------------------------
(* handlers.py *)

S_Course == <<"C","o","u","r","s","e"," ">>

S_Colon == <<":"," ">>

S_Description == <<"."," ","D","e","s","c","r","i","p","t","i","o","n",":"," ">>

S_FoundByTitle == <<"F","o","u","n","d"," ","c","o","u","r","s","e"," ","b","y"," ","t","i","t","l","e",":"," ">>

S_Id == <<"."," ","I","D",":"," ">>

S_Sorry == <<"S","o","r","r","y",","," ","I"," ","c","o","u","l","d","n","'","t"," ","f","i","n","d"," ","a","n"," ","a","n","s","w","e","r"," ","t","o"," ","y","o","u","r"," ","q","u","e","s","t","i","o","n",".">>

\* the answer of CourseIdHandler for a course
IdAnswer(course) ==
    S_Course \o course.id \o S_Colon \o course.title \o S_Description \o course.description

\* the answer of CourseTitleHandler for a course
TitleAnswer(course) ==
    S_FoundByTitle \o course.title \o S_Id \o course.id \o S_Description
    \o course.description

RECURSIVE FindById(_, _)
\* the for loop of CourseIdHandler._process
FindById(cs, course_id) ==
    IF Len(cs) = 0 THEN NoStr
    ELSE IF Head(cs).id = course_id THEN Str(IdAnswer(Head(cs)))
    ELSE FindById(Tail(cs), course_id)

RECURSIVE FindByAnyToken(_, _, _)
FindByAnyToken(cs, query, i) ==
    IF i > Len(query) THEN NoStr
    ELSE IF IdPatternAt(query, i)
            /\ FindById(cs, SubSeq(query, i, i + IdTailLen)).some
    THEN FindById(cs, SubSeq(query, i, i + IdTailLen))
    ELSE FindByAnyToken(cs, query, i + 1)

\* CourseIdHandler._process gone wrong: every match is looked up, not the
\* leftmost alone
CourseIdProcessAnyToken(h, query) == FindByAnyToken(h._courses, query, 1)

\* CourseIdHandler._process
CourseIdProcess(h, query) ==
    LET match == IdSearch(query)
    IN  IF match.some THEN FindById(h._courses, match.val) ELSE NoStr

RECURSIVE FindByTitleCaseSensitive(_, _)
\* FindByTitle gone wrong: the title is not lowered before it is looked for
FindByTitleCaseSensitive(cs, query_lower) ==
    IF Len(cs) = 0 THEN NoStr
    ELSE IF Contains(query_lower, Head(cs).title) THEN Str(TitleAnswer(Head(cs)))
    ELSE FindByTitleCaseSensitive(Tail(cs), query_lower)

\* FindByTitle gone wrong: of the courses whose title is in the query, the one
\* with the longest title answers
FindByTitleLongest(cs, query_lower) ==
    LET m == {i \in 1..Len(cs) : Contains(query_lower, Lower(cs[i].title))}
    IN  IF m = {} THEN NoStr
        ELSE LET b == CHOOSE i \in m :
                        \A j \in m : \/ Len(cs[j].title) < Len(cs[i].title)
                                     \/ Len(cs[j].title) = Len(cs[i].title) /\ i <= j
             IN  Str(TitleAnswer(cs[b]))

RECURSIVE FindByTitle(_, _)
\* the for loop of CourseTitleHandler._process
FindByTitle(cs, query_lower) ==
    IF Len(cs) = 0 THEN NoStr
    ELSE IF Contains(query_lower, Lower(Head(cs).title)) THEN Str(TitleAnswer(Head(cs)))
    ELSE FindByTitle(Tail(cs), query_lower)

\* CourseTitleHandler._process
CourseTitleProcess(h, query) == FindByTitle(h._courses, Lower(query))

\* SemanticGenerate gone wrong: without context the stage gives no answer
SemanticGenerateNeedsContext(h, query, ctx) ==
    IF ctx.raised # "none"
    THEN {[raised |-> ctx.raised, calls |-> ctx.calls, result |-> NoStr]}
    ELSE IF Len(ctx.result) = 0
    THEN {[raised |-> "none", calls |-> ctx.calls, result |-> NoStr]}
    ELSE {[raised |-> ans.raised, calls |-> ctx.calls \o ans.calls,
           result |-> IF ans.raised = "none" THEN Str(ans.result) ELSE NoStr]
            : ans \in GenerateAnswer(h.provider, query, ctx.result)}

\* the ways generate_answer can end after retrieve ended as ctx
SemanticGenerate(h, query, ctx) ==
    IF ctx.raised # "none"
    THEN {[raised |-> ctx.raised, calls |-> ctx.calls, result |-> NoStr]}
    ELSE {[raised |-> ans.raised, calls |-> ctx.calls \o ans.calls,
           result |-> IF ans.raised = "none" THEN Str(ans.result) ELSE NoStr]
            : ans \in GenerateAnswer(h.provider, query, ctx.result)}

\* SemanticHandler._process gone wrong: the content store is not tested
SemanticProcessStoreUntested(h, query, content_store) ==
    IF TruthyObj(h.strategy) /\ TruthyObj(h.provider)
    THEN UNION {SemanticGenerate(h, query, ctx)
                    : ctx \in Retrieve(h.strategy, query, content_store)}
    ELSE {[raised |-> "none", calls |-> <<>>, result |-> NoStr]}

\* SemanticHandler._process
SemanticProcess(h, query, content_store) ==
    IF TruthyObj(h.strategy) /\ TruthyObj(h.provider) /\ TruthyObj(content_store)
    THEN UNION {SemanticGenerate(h, query, ctx)
                    : ctx \in Retrieve(h.strategy, query, content_store)}
    ELSE {[raised |-> "none", calls |-> <<>>, result |-> NoStr]}

\* self._process(query, content_store), dispatched on the handler's class
Process(h, query, content_store) ==
    CASE h.cls = "CourseIdHandler" ->
            {[raised |-> "none", calls |-> <<>>, result |-> CourseIdProcess(h, query)]}
      [] h.cls = "CourseTitleHandler" ->
            {[raised |-> "none", calls |-> <<>>, result |-> CourseTitleProcess(h, query)]}
      [] h.cls = "SemanticHandler" ->
            SemanticProcess(h, query, content_store)

RECURSIVE Handle(_, _, _, _)
\* QueryHandler.handle of the handler named hn; hs are the handler objects.
\* Every _process call is logged with what it returned, followed by the calls
\* it made itself.
Handle(hs, hn, query, content_store) ==
    UNION {
        LET ev == [fn |-> "_process", handler |-> hn, cls |-> hs[hn].cls,
                   returned |-> r.result, raised |-> r.raised]
        IN  IF r.raised # "none"
            THEN {[raised |-> r.raised, calls |-> <<ev>> \o r.calls, result |-> NoStr]}
            ELSE IF TruthyStr(r.result)
            THEN {[raised |-> "none", calls |-> <<ev>> \o r.calls, result |-> r.result]}
            ELSE IF hs[hn]._successor # None
            THEN {[s EXCEPT !.calls = <<ev>> \o r.calls \o @]
                    : s \in Handle(hs, hs[hn]._successor, query, content_store)}
            ELSE {[raised |-> "none", calls |-> <<ev>> \o r.calls,
                   result |-> Str(S_Sorry)]}
        : r \in Process(hs[hn], query, content_store)}

\* QueryHandler.__init__
NewHandler(cls, successor, cs) ==
    [cls |-> cls, _successor |-> successor, _courses |-> cs]

\* SemanticHandler.__init__
NewSemanticHandler(successor, cs, s, p) ==
    NewHandler("SemanticHandler", successor, cs) @@ [strategy |-> s, provider |-> p]

----------------------------------------------------------------------------
(* chatbot.py: the controller *)

\* _build_handler_chain gone wrong: the title handler put in front
BuildHandlerChainTitleFirst(cs, s, p) ==
    [handlers |->
        [semantic_handler |-> NewSemanticHandler(None, cs, s, p),
         id_handler       |-> NewHandler("CourseIdHandler", "semantic_handler", cs),
         title_handler    |-> NewHandler("CourseTitleHandler", "id_handler", cs)],
     chain |-> "title_handler"]

\* CSEChatbot._build_handler_chain: the handler objects and the head
BuildHandlerChain(cs, s, p) ==
    [handlers |->
        [semantic_handler |-> NewSemanticHandler(None, cs, s, p),
         title_handler    |-> NewHandler("CourseTitleHandler", "semantic_handler", cs),
         id_handler       |-> NewHandler("CourseIdHandler", "title_handler", cs)],
     chain |-> "id_handler"]

\* identities of the live objects among refs
LiveOids(refs) == {r.oid : r \in {x \in refs : x # NoneObj}}

\* set_strategy gone wrong: the semantic handler keeps its strategy
SetStrategyCodeStale(ctl, sem, strategy_name) ==
    IF strategy_name \in DOMAIN strategies
    THEN LET new == NewStrategy(strategies[strategy_name], FreshOid(LiveOids({ctl, sem})))
         IN  [ctl |-> new, sem |-> sem,
              printed |-> <<Message("Strategy changed to: {strategy_name}", strategy_name)>>]
    ELSE [ctl |-> ctl, sem |-> sem,
          printed |-> <<Message("Unknown strategy: {strategy_name}", strategy_name)>>]

\* set_strategy gone wrong: an unknown name falls back to a new TopNStrategy
SetStrategyCodeFallback(ctl, sem, strategy_name) ==
    LET cls == IF strategy_name \in DOMAIN strategies
               THEN strategies[strategy_name] ELSE "TopNStrategy"
        new == NewStrategy(cls, FreshOid(LiveOids({ctl, sem})))
    IN  [ctl |-> new, sem |-> new,
         printed |-> IF strategy_name \in DOMAIN strategies
                     THEN <<Message("Strategy changed to: {strategy_name}", strategy_name)>>
                     ELSE <<Message("Unknown strategy: {strategy_name}", strategy_name)>>]

\* CSEChatbot.set_strategy: the controller's strategy, the semantic handler's
\* strategy and the message, from the two as they were
SetStrategyCode(ctl, sem, strategy_name) ==
    IF strategy_name \in DOMAIN strategies
    THEN LET new == NewStrategy(strategies[strategy_name], FreshOid(LiveOids({ctl, sem})))
         IN  [ctl |-> new, sem |-> new,
              printed |-> <<Message("Strategy changed to: {strategy_name}", strategy_name)>>]
    ELSE [ctl |-> ctl, sem |-> sem,
          printed |-> <<Message("Unknown strategy: {strategy_name}", strategy_name)>>]

\* set_provider gone wrong: the semantic handler keeps its provider
SetProviderCodeStale(ctl, sem, provider_name) ==
    IF provider_name \in DOMAIN providers
    THEN LET new == NewProvider(providers[provider_name], FreshOid(LiveOids({ctl, sem})))
         IN  [ctl |-> new, sem |-> sem,
              printed |-> <<Message("Provider changed to: {provider_name}", provider_name)>>]
    ELSE [ctl |-> ctl, sem |-> sem,
          printed |-> <<Message("Unknown provider: {provider_name}", provider_name)>>]

\* set_provider gone wrong: an unknown name, looked up with dict.get, leaves
\* None as the provider
SetProviderCodeGet(ctl, sem, provider_name) ==
    IF provider_name \in DOMAIN providers
    THEN LET new == NewProvider(providers[provider_name], FreshOid(LiveOids({ctl, sem})))
         IN  [ctl |-> new, sem |-> new,
              printed |-> <<Message("Provider changed to: {provider_name}", provider_name)>>]
    ELSE [ctl |-> NoneObj, sem |-> NoneObj,
          printed |-> <<Message("Unknown provider: {provider_name}", provider_name)>>]

\* CSEChatbot.set_provider, likewise
SetProviderCode(ctl, sem, provider_name) ==
    IF provider_name \in DOMAIN providers
    THEN LET new == NewProvider(providers[provider_name], FreshOid(LiveOids({ctl, sem})))
         IN  [ctl |-> new, sem |-> new,
              printed |-> <<Message("Provider changed to: {provider_name}", provider_name)>>]
    ELSE [ctl |-> ctl, sem |-> sem,
          printed |-> <<Message("Unknown provider: {provider_name}", provider_name)>>]

\* what a call leaves behind for the caller to see
\* (question: the query of ask and handle; name: the argument of the others)
Outcome(op, question, name, r, printed) ==
    [op |-> op, question |-> question, name |-> name, result |-> r.result,
     raised |-> r.raised, calls |-> r.calls, printed |-> printed]

NoResult == [result |-> NoStr, raised |-> "none", calls |-> <<>>]

Raise(exc) == [result |-> NoStr, raised |-> exc, calls |-> <<>>]

\* main() with nothing read and no ask under way: where it is (pc), the line
\* input() returned and user_input; and of the ask under way the query, the
\* handler whose handle is running (at), the calls made before that handler's
\* _process and inside it (calls, inner), the object whose method is running
\* (using) and the context retrieved
MainIdle ==
    [pc |-> "start", line |-> <<>>, user_input |-> <<>>, query |-> <<>>, at |-> None,
     calls |-> <<>>, inner |-> <<>>, using |-> NoneObj, context |-> <<>>]

----------------------------------------------------------------------------
(* Inputs *)

\* what queries are put together from: the ids of courses A and B, a four
\* digit number outside the id range, a blank, the titles of A and B in
\* other case
Pieces == {<<"4","3","6","1">>, <<"2","3","2","0">>, <<"5","3","6","1">>, <<" ">>, <<"j","K">>, <<"k">>}

RECURSIVE Concats(_)
Concats(n) ==
    IF n = 0 THEN {<<>>}
    ELSE LET shorter == Concats(n - 1)
         IN  shorter \cup {q \o p : q \in shorter, p \in Pieces}

RouteQueries == Concats(MaxParts)

\* the questions asked between swaps: one for each way through the chain
SwapQueries == {<<>>, <<"4","3","6","1">>, <<"j","K">>, <<"5","3","6","1">>}

StrategyNameInputs ==
    {"top_n", "window", "document", "hierarchical", "Window", "ollama"}

ProviderNameInputs ==
    {"ollama", "openai", "gemini", "OpenAI", "foo"}

----------------------------------------------------------------------------
(* The state machine *)

\* before CSEChatbot(...) is called, with the source one of files
InitOn(files) ==
    /\ file \in files
    /\ phase = "new"
    /\ courses = <<>>
    /\ store = NoneObj
    /\ strategy = NoneObj
    /\ provider = NoneObj
    /\ chain = None
    /\ handlers = NoneObj
    /\ last = Outcome("none", <<>>, "", NoResult, <<>>)
    /\ main = MainIdle

\* CSEChatbot.__init__("courses.jsonl")
Construct ==
    /\ phase = "new"
    /\ \E embedOK \in BOOLEAN :  \* whether the embedding service answers
        LET loaded  == LoadCourses(file)
            chunks  == IndexChunks(loaded.courses)
            s       == NewStrategy("TopNStrategy", FreshOid({}))
            p       == NewProvider("OllamaProvider", FreshOid({}))
            built   == BuildHandlerChain(loaded.courses, s, p)
            prints  == loaded.printed
                       \o <<Message("Initializing RAG components...", ""),
                            Message("Indexing courses...", "")>>
        IN  IF loaded.raised # "none"
            THEN /\ phase' = "aborted"
                 /\ last' = Outcome("__init__", <<>>, DataPath, Raise(loaded.raised), loaded.printed)
                 /\ UNCHANGED <<file, courses, store, strategy, provider, chain, handlers, main>>
            ELSE IF Len(chunks) > 0 /\ ~embedOK
            THEN \* _store.store(chunks) embeds every chunk: the service is down
                 /\ phase' = "aborted"
                 /\ last' = Outcome("__init__", <<>>, DataPath, Raise("ConnectionError"), prints)
                 /\ UNCHANGED <<file, courses, store, strategy, provider, chain, handlers, main>>
            ELSE /\ phase' = "ready"
                 /\ courses' = loaded.courses
                 /\ store' = [NewStore EXCEPT !.chunks = chunks]
                 /\ strategy' = s
                 /\ provider' = p
                 /\ handlers' = built.handlers
                 /\ chain' = built.chain
                 /\ last' = Outcome("__init__", <<>>, DataPath, NoResult,
                                    prints \o <<Message("Indexing complete.", "")>>)
                 /\ UNCHANGED <<file, main>>

\* ask gone wrong: the catalog is a one-shot iterator, used up by the scan
AskExhaustsCatalog(question) ==
    /\ phase = "ready"
    /\ \E r \in Handle(handlers, chain, question, store) :
        last' = Outcome("ask", question, "", r, <<>>)
                    @@ [again |-> last.op = "ask" /\ last.question = question]
    /\ courses' = <<>>
    /\ handlers' = [h \in DOMAIN handlers |-> [handlers[h] EXCEPT !._courses = <<>>]]
    /\ UNCHANGED <<file, phase, store, strategy, provider, chain, main>>

\* CSEChatbot.ask(question)
\* (again: the call before was ask as well, with the same question)
Ask(question) ==
    /\ phase = "ready"
    /\ \E r \in Handle(handlers, chain, question, store) :
        last' = Outcome("ask", question, "", r, <<>>)
                    @@ [again |-> last.op = "ask" /\ last.question = question]
    /\ UNCHANGED <<file, phase, courses, store, strategy, provider, chain, handlers, main>>

\* self._handler_chain.handle(query): content_store left at its default, None
HandleNoStore(query) ==
    /\ phase = "ready"
    /\ \E r \in Handle(handlers, chain, query, NoneObj) :
        last' = Outcome("handle", query, "", r, <<>>)
    /\ UNCHANGED <<file, phase, courses, store, strategy, provider, chain, handlers, main>>

\* set_strategy gone wrong: the semantic handler is made the head of the chain
SetStrategyRewires(strategy_name) ==
    /\ phase = "ready"
    /\ LET r == SetStrategyCode(strategy, handlers.semantic_handler.strategy, strategy_name)
       IN  /\ strategy' = r.ctl
           /\ handlers' = [handlers EXCEPT !.semantic_handler.strategy = r.sem]
           /\ chain' = IF strategy_name \in DOMAIN strategies
                       THEN "semantic_handler" ELSE chain
           /\ last' = Outcome("set_strategy", <<>>, strategy_name, NoResult, r.printed)
    /\ UNCHANGED <<file, phase, courses, store, provider, main>>

\* self.strategy.retrieve(query, None): the active strategy without a store
\* (context: the sequence retrieve returned)
RetrieveNoStore(query) ==
    /\ phase = "ready"
    /\ \E r \in Retrieve(strategy, query, NoneObj) :
        last' = Outcome("retrieve", query, "", [r EXCEPT !.result = NoStr], <<>>)
                    @@ [context |-> r.result]
    /\ UNCHANGED <<file, phase, courses, store, strategy, provider, chain, handlers, main>>

\* CSEChatbot.set_strategy(strategy_name)
SetStrategy(strategy_name) ==
    /\ phase = "ready"
    /\ LET r == SetStrategyCode(strategy, handlers.semantic_handler.strategy, strategy_name)
       IN  /\ strategy' = r.ctl
           /\ handlers' = [handlers EXCEPT !.semantic_handler.strategy = r.sem]
           /\ last' = Outcome("set_strategy", <<>>, strategy_name, NoResult, r.printed)
    /\ UNCHANGED <<file, phase, courses, store, provider, chain, main>>

\* CSEChatbot.set_provider(provider_name)
SetProvider(provider_name) ==
    /\ phase = "ready"
    /\ LET r == SetProviderCode(provider, handlers.semantic_handler.provider, provider_name)
       IN  /\ provider' = r.ctl
           /\ handlers' = [handlers EXCEPT !.semantic_handler.provider = r.sem]
           /\ last' = Outcome("set_provider", <<>>, provider_name, NoResult, r.printed)
    /\ UNCHANGED <<file, phase, courses, store, strategy, chain, main>>

Init == InitOn(Files)

AskSwap == \E q \in SwapQueries : Ask(q)

SetStrategyAny == \E n \in StrategyNameInputs : SetStrategy(n)

SetProviderAny == \E n \in ProviderNameInputs : SetProvider(n)

RetrieveNoStoreAny == \E q \in SwapQueries : RetrieveNoStore(q)

Next ==
    \/ Construct
    \/ AskSwap
    \/ SetStrategyAny
    \/ SetProviderAny
    \/ RetrieveNoStoreAny

Spec == Init /\ [][Next]_vars

\* ask and handle change nothing but what the caller sees of the call, so
\* the long queries are each put to the controller as constructed
AskRoute == last.op = "__init__" /\ \E q \in RouteQueries : Ask(q)

HandleNoStoreRoute == last.op = "__init__" /\ \E q \in RouteQueries : HandleNoStore(q)

NextRoute ==
    \/ Construct
    \/ AskRoute
    \/ HandleNoStoreRoute

InitRoute == InitOn(RouteFiles)

SpecRoute == InitRoute /\ [][NextRoute]_vars

\* the long queries put to controllers whose catalog may hold an id outside
\* the range of the id pattern
AskRange == last.op = "__init__" /\ \E q \in RouteQueries : Ask(q)

NextRange ==
    \/ Construct
    \/ AskRange

InitRange == InitOn(RangeFiles)

SpecRange == InitRange /\ [][NextRange]_vars

----------------------------------------------------------------------------
(* chatbot.py: main(), the interactive loop *)

S_Exit == <<"e","x","i","t">>

S_SetStrategy == <<"s","e","t"," ","s","t","r","a","t","e","g","y"," ">>

S_SetProvider == <<"s","e","t"," ","p","r","o","v","i","d","e","r"," ">>

\* how the names typed after a set command are spelled
Spelling ==
    [top_n |-> <<"t","o","p","_","n">>, window |-> <<"w","i","n","d","o","w">>, document |-> <<"d","o","c","u","m","e","n","t">>,
     Window |-> <<"W","i","n","d","o","w">>, ollama |-> <<"o","l","l","a","m","a">>, openai |-> <<"o","p","e","n","a","i">>,
     gemini |-> <<"g","e","m","i","n","i">>, OpenAI |-> <<"O","p","e","n","A","I">>, foo |-> <<"f","o","o">>]

\* the name spelled word
NameOf(word) == CHOOSE n \in DOMAIN Spelling : Spelling[n] = word

\* the lines input() returns: blank lines, exit, the set commands with known,
\* wrongly cased and unknown names, other commands, and questions that run
\* to the identifier, the title and the semantic stage
InputLines ==
    {<<>>, <<" "," ">>,
     <<"e","x","i","t">>, <<" ","E","X","I","T"," ">>,
     <<"s","e","t"," ","s","t","r","a","t","e","g","y"," ","w","i","n","d","o","w">>, <<"S","E","T"," ","S","T","R","A","T","E","G","Y"," ","d","o","c","u","m","e","n","t">>, <<"s","e","t"," ","s","t","r","a","t","e","g","y"," ","t","o","p","_","n">>,
     <<"s","e","t"," ","s","t","r","a","t","e","g","y"," ","W","i","n","d","o","w">>, <<"s","e","t"," ","s","t","r","a","t","e","g","y"," ","f","o","o">>,
     <<"s","e","t"," ","p","r","o","v","i","d","e","r"," ","o","p","e","n","a","i">>, <<"S","e","t"," ","P","r","o","v","i","d","e","r"," "," ","g","e","m","i","n","i">>, <<"s","e","t"," ","p","r","o","v","i","d","e","r"," ","o","l","l","a","m","a">>,
     <<"s","e","t"," ","p","r","o","v","i","d","e","r"," ","O","p","e","n","A","I">>, <<"s","e","t"," ","p","r","o","v","i","d","e","r"," ","f","o","o">>,
     <<"s","e","t"," ","f","o","o">>, <<"s","e","t"," ","s","t","r","a","t","e","g","y">>, <<"e","x","i","t"," ","f","o","o">>,
     <<"4","3","6","1">>, <<"j","K">>}

\* Dispatch gone wrong: the line is tested as typed, not lowered
DispatchAsTyped(user_input) ==
    IF Len(user_input) = 0 THEN "continue"
    ELSE IF user_input = S_Exit THEN "exit"
    ELSE IF StartsWith(user_input, S_SetStrategy) THEN "set_strategy"
    ELSE IF StartsWith(user_input, S_SetProvider) THEN "set_provider"
    ELSE "ask"

\* the branch of the loop body user_input takes
Dispatch(user_input) ==
    IF Len(user_input) = 0 THEN "continue"
    ELSE IF Lower(user_input) = S_Exit THEN "exit"
    ELSE IF StartsWith(Lower(user_input), S_SetStrategy) THEN "set_strategy"
    ELSE IF StartsWith(Lower(user_input), S_SetProvider) THEN "set_provider"
    ELSE "ask"

\* Accepting gone wrong: a line is read and handled while an ask is under way
AcceptingDuringAsk(m) == m.pc \in {"input", "handle", "retrieve", "generate"}

\* main() is at input(): the loop reads a line only once the line before it
\* has been dealt with
Accepting(m) == m.pc = "input"

\* main() back at the head of the loop, or out of it, with nothing under way
MainAt(pc) == [MainIdle EXCEPT !.pc = pc, !.line = main.line, !.user_input = main.user_input]

\* print("\nCSE Course Chatbot") ... print("-" * 40), once the controller is
\* constructed
MainBanner ==
    /\ phase = "ready"
    /\ main.pc = "start"
    /\ main' = [main EXCEPT !.pc = "input"]
    /\ last' = Outcome("banner", <<>>, "", NoResult,
                       <<Message("\nCSE Course Chatbot", ""),
                         Message("Commands: 'exit', 'set strategy <name>', 'set provider <name>'", ""),
                         Message("----------------------------------------", "")>>)
    /\ UNCHANGED <<file, phase, courses, store, strategy, provider, chain, handlers>>

\* user_input = input("You: ").strip() and the branch taken, for every line
Branches == [line \in InputLines |-> Dispatch(Strip(line))]

\* input() returned line and the loop body takes the given branch
MainRead(line, branch) ==
    /\ phase = "ready"
    /\ Accepting(main)
    /\ Branches[line] = branch

\* if not user_input: continue
MainBlank ==
    \E line \in InputLines :
        /\ MainRead(line, "continue")
        /\ main' = [main EXCEPT !.line = line, !.user_input = Strip(line)]
        /\ last' = Outcome("continue", <<>>, "", NoResult, <<>>)
        /\ UNCHANGED <<file, phase, courses, store, strategy, provider, chain, handlers>>

\* if user_input.lower() == "exit": print("Goodbye!"); break
MainExit ==
    \E line \in InputLines :
        /\ MainRead(line, "exit")
        /\ main' = [main EXCEPT !.line = line, !.user_input = Strip(line), !.pc = "done"]
        /\ last' = Outcome("exit", <<>>, "", NoResult, <<Message("Goodbye!", "")>>)
        /\ UNCHANGED <<file, phase, courses, store, strategy, provider, chain, handlers>>

\* chatbot.set_strategy(user_input.split()[-1]); continue
MainSetStrategy ==
    \E line \in InputLines :
        /\ MainRead(line, "set_strategy")
        /\ main' = [main EXCEPT !.line = line, !.user_input = Strip(line)]
        /\ LET strategy_name == NameOf(LastWord(Strip(line)))
               r == SetStrategyCode(strategy, handlers.semantic_handler.strategy,
                                    strategy_name)
           IN  /\ strategy' = r.ctl
               /\ handlers' = [handlers EXCEPT !.semantic_handler.strategy = r.sem]
               /\ last' = Outcome("set_strategy", <<>>, strategy_name, NoResult, r.printed)
        /\ UNCHANGED <<file, phase, courses, store, provider, chain>>

\* chatbot.set_provider(user_input.split()[-1]); continue
MainSetProvider ==
    \E line \in InputLines :
        /\ MainRead(line, "set_provider")
        /\ main' = [main EXCEPT !.line = line, !.user_input = Strip(line)]
        /\ LET provider_name == NameOf(LastWord(Strip(line)))
               r == SetProviderCode(provider, handlers.semantic_handler.provider,
                                    provider_name)
           IN  /\ provider' = r.ctl
               /\ handlers' = [handlers EXCEPT !.semantic_handler.provider = r.sem]
               /\ last' = Outcome("set_provider", <<>>, provider_name, NoResult, r.printed)
        /\ UNCHANGED <<file, phase, courses, store, strategy, chain>>

\* input() returned a question and chatbot.ask(user_input) is entered:
\* self._handler_chain.handle(question, self._store) is about to run.  The
\* log of the ask starts with the policies active at this moment.
MainAsk ==
    \E line \in InputLines :
        /\ MainRead(line, "ask")
        /\ main' = [MainIdle EXCEPT !.pc = "handle", !.line = line,
                                    !.user_input = Strip(line), !.query = Strip(line),
                                    !.at = chain,
                                    !.calls = <<[fn |-> "ask", strategy |-> strategy,
                                                 provider |-> provider]>>]
        /\ last' = Outcome("input", Strip(line), "", NoResult, <<>>)
        /\ UNCHANGED <<file, phase, courses, store, strategy, provider, chain, handlers>>

\* the _process call of the handler main.at, as logged
ProcessEvent(returned, raised) ==
    [fn |-> "_process", handler |-> main.at, cls |-> handlers[main.at].cls,
     returned |-> returned, raised |-> raised]

\* ask returned response: print(f"Bot: {response}\n"), and back to input()
MainRespond(response, calls) ==
    /\ last' = Outcome("ask", main.query, "",
                       [result |-> response, raised |-> "none", calls |-> calls],
                       <<Message("Bot: {response}\n", "")>>)
    /\ main' = MainAt("input")

\* an exception other than KeyboardInterrupt leaves ask, the loop and main()
MainRaise(exc, calls) ==
    /\ last' = Outcome("ask", main.query, "",
                       [result |-> NoStr, raised |-> exc, calls |-> calls], <<>>)
    /\ main' = MainAt("done")

\* QueryHandler.handle after _process returned result: return it, or hand
\* the query to the successor, or return the fallback message
MainProcessed(result, calls) ==
    IF TruthyStr(result) THEN MainRespond(result, calls)
    ELSE IF handlers[main.at]._successor # None
    THEN /\ main' = [main EXCEPT !.at = handlers[main.at]._successor, !.calls = calls,
                                 !.inner = <<>>, !.using = NoneObj, !.context = <<>>,
                                 !.pc = "handle"]
         /\ UNCHANGED last
    ELSE MainRespond(Str(S_Sorry), calls)

\* handle of the handler main.at calls its _process: the identifier and the
\* title handler return at once; the semantic handler tests its strategy, its
\* provider and the store and calls self.strategy.retrieve
MainHandle ==
    /\ phase = "ready"
    /\ main.pc = "handle"
    /\ LET h == handlers[main.at]
       IN  CASE h.cls = "CourseIdHandler" ->
                    LET result == CourseIdProcess(h, main.query)
                    IN  MainProcessed(result, main.calls \o <<ProcessEvent(result, "none")>>)
             [] h.cls = "CourseTitleHandler" ->
                    LET result == CourseTitleProcess(h, main.query)
                    IN  MainProcessed(result, main.calls \o <<ProcessEvent(result, "none")>>)
             [] h.cls = "SemanticHandler" ->
                    IF TruthyObj(h.strategy) /\ TruthyObj(h.provider) /\ TruthyObj(store)
                    THEN /\ main' = [main EXCEPT !.pc = "retrieve", !.using = h.strategy]
                         /\ UNCHANGED last
                    ELSE MainProcessed(NoStr, main.calls \o <<ProcessEvent(NoStr, "none")>>)
    /\ UNCHANGED <<file, phase, courses, store, strategy, provider, chain, handlers>>

\* retrieve ends: raising, or with the context, on which the semantic handler
\* calls self.provider.generate_answer
MainRetrieved ==
    /\ phase = "ready"
    /\ main.pc = "retrieve"
    /\ \E ctx \in Retrieve(main.using, main.query, store) :
        IF ctx.raised # "none"
        THEN MainRaise(ctx.raised,
                       main.calls \o <<ProcessEvent(NoStr, ctx.raised)>> \o ctx.calls)
        ELSE /\ main' = [main EXCEPT !.pc = "generate", !.inner = ctx.calls,
                                     !.context = ctx.result,
                                     !.using = handlers[main.at].provider]
             /\ UNCHANGED last
    /\ UNCHANGED <<file, phase, courses, store, strategy, provider, chain, handlers>>

\* generate_answer ends: raising, or with the answer _process returns
MainGenerated ==
    /\ phase = "ready"
    /\ main.pc = "generate"
    /\ \E ans \in GenerateAnswer(main.using, main.query, main.context) :
        IF ans.raised # "none"
        THEN MainRaise(ans.raised,
                       main.calls \o <<ProcessEvent(NoStr, ans.raised)>> \o main.inner
                       \o ans.calls)
        ELSE MainProcessed(Str(ans.result),
                           main.calls \o <<ProcessEvent(Str(ans.result), "none")>>
                           \o main.inner \o ans.calls)
    /\ UNCHANGED <<file, phase, courses, store, strategy, provider, chain, handlers>>

\* Ctrl-C, at input() or during an ask: except KeyboardInterrupt:
\* print("\nGoodbye!"); break.  End of input at input(): EOFError, not caught.
MainInterrupted ==
    /\ phase = "ready"
    /\ \/ /\ main.pc \in {"input", "handle", "retrieve", "generate"}
          /\ last' = Outcome("KeyboardInterrupt", <<>>, "", NoResult,
                             <<Message("\nGoodbye!", "")>>)
       \/ /\ main.pc = "input"
          /\ last' = Outcome("input", <<>>, "", Raise("EOFError"), <<>>)
    /\ main' = [MainIdle EXCEPT !.pc = "done"]
    /\ UNCHANGED <<file, phase, courses, store, strategy, provider, chain, handlers>>

NextMain ==
    \/ Construct
    \/ MainBanner
    \/ MainBlank
    \/ MainExit
    \/ MainSetStrategy
    \/ MainSetProvider
    \/ MainAsk
    \/ MainHandle
    \/ MainRetrieved
    \/ MainGenerated
    \/ MainInterrupted

SpecMain == Init /\ [][NextMain]_vars

----------------------------------------------------------------------------
(* Vocabulary of the properties *)

\* the last call was ask, on a constructed controller
Asked == phase = "ready" /\ last.op = "ask"

\* the last call went through the chain (ask, or handle without a store)
Routed == phase = "ready" /\ last.op \in {"ask", "handle"}

\* an id token starts at position i of q: exactly four digits, the first in
\* 1..4, with no digit, letter or underscore next to them
IdTokenAt(q, i) ==
    /\ i \in 1..(Len(q) - 3)
    /\ q[i] \in {"1", "2", "3", "4"}
    /\ \A j \in (i + 1)..(i + 3) : q[j] \in Digits
    /\ (i = 1 \/ ~IsWord(q[i - 1]))
    /\ (i + 3 = Len(q) \/ ~IsWord(q[i + 4]))

TokenAt(q, i) == SubSeq(q, i, i + 3)

IdTokenPositions(q) == {i \in 1..Len(q) : IdTokenAt(q, i)}

\* the leftmost id token of q is id
LeftmostTokenIs(q, id) ==
    LET positions == IdTokenPositions(q)
    IN  \E i \in positions :
            /\ TokenAt(q, i) = id
            /\ \A j \in positions : i <= j

\* some id token of q, at any position, is the id of a catalog course
SomeTokenInCatalog(q) ==
    \E i \in IdTokenPositions(q), c \in 1..Len(courses) : TokenAt(q, i) = courses[c].id

\* a string of exactly four digits in the range 1000-4999
ValidRangeId(id) ==
    /\ Len(id) = 4
    /\ id[1] \in {"1", "2", "3", "4"}
    /\ \A j \in 2..4 : id[j] \in Digits

\* the title of catalog course c is in q, whatever the case of the letters
TitleIn(q, c) == Contains(Lower(q), Lower(courses[c].title))

\* the chain's _process calls of the last call, in the order made
Stages == SelectSeq(last.calls, LAMBDA e : e.fn = "_process")

CallsOf(fn) == SelectSeq(last.calls, LAMBDA e : e.fn = fn)

\* position of the first call of fn in the last call's log (0: none)
FirstCall(fn) ==
    IF \E i \in 1..Len(last.calls) : last.calls[i].fn = fn
    THEN CHOOSE i \in 1..Len(last.calls) :
            /\ last.calls[i].fn = fn
            /\ \A j \in 1..(i - 1) : last.calls[j].fn # fn
    ELSE 0

Returned(s) == last.raised = "none" /\ last.result.some /\ Contains(last.result.val, s)

----------------------------------------------------------------------------
(* C1 *)

\* C1 as stated: whenever the query holds, as a substring, the valid-range
\* four-digit id of a catalog course, ask returns an answer containing that
\* course's title and description.
C1_AnyIdSubstringAnswers ==
    Asked =>
        \A c \in 1..Len(courses) :
            (ValidRangeId(courses[c].id) /\ Contains(last.question, courses[c].id))
                => Returned(courses[c].title) /\ Returned(courses[c].description)

\* C1 amended: whenever the leftmost id token of the query is the id of a
\* catalog course, ask returns an answer containing the title and the
\* description of the first catalog course with that id, and neither the
\* title stage nor the semantic stage is run.
C1_LeftmostIdAnswers ==
    Asked =>
        \A c \in 1..Len(courses) :
            (/\ LeftmostTokenIs(last.question, courses[c].id)
             /\ \A d \in 1..(c - 1) : courses[d].id # courses[c].id)
                => /\ Returned(courses[c].title)
                   /\ Returned(courses[c].description)
                   /\ Len(Stages) = 1

\* an id query answered by the id stage although another course's title is in it
C1_Witness ==
    /\ Asked
    /\ \E c, d \in 1..Len(courses) :
        /\ LeftmostTokenIs(last.question, courses[c].id)
        /\ courses[d].id # courses[c].id
        /\ TitleIn(last.question, d)
        /\ Returned(courses[c].title)
        /\ ~Returned(courses[d].description)

----------------------------------------------------------------------------
(* C2 *)

\* C2 as stated: whenever the query holds a catalog course's title (in any
\* case) and no id token of a catalog course, ask returns an answer
\* containing the id of that course.
C2_AnyTitleAnswers ==
    Asked =>
        \A c \in 1..Len(courses) :
            (TitleIn(last.question, c) /\ ~SomeTokenInCatalog(last.question))
                => Returned(courses[c].id)

\* C2 amended: whenever the query holds a catalog course's title (in any
\* case) and no id token of a catalog course, ask returns an answer
\* containing the id of the first course, in catalog order, whose title is in
\* the query.
C2_FirstTitleAnswers ==
    Asked =>
        \A c \in 1..Len(courses) :
            (/\ TitleIn(last.question, c)
             /\ \A d \in 1..(c - 1) : ~TitleIn(last.question, d)
             /\ ~SomeTokenInCatalog(last.question))
                => Returned(courses[c].id)

\* a title query, written in another case than the catalog's, answered with
\* the course's id
C2_Witness ==
    /\ Asked
    /\ ~SomeTokenInCatalog(last.question)
    /\ \E c \in 1..Len(courses) :
        /\ TitleIn(last.question, c)
        /\ ~Contains(last.question, courses[c].title)
        /\ \A d \in 1..(c - 1) : ~TitleIn(last.question, d)
        /\ Returned(courses[c].id)

----------------------------------------------------------------------------
(* C3 *)

\* the query of the last call matches neither a catalog id nor a catalog title
NoCatalogMatch ==
    /\ ~SomeTokenInCatalog(last.question)
    /\ \A c \in 1..Len(courses) : ~TitleIn(last.question, c)

\* the last call made exactly one retrieve and then exactly one
\* generate_answer, by the active strategy and provider objects
RetrievedThenGenerated ==
    /\ Len(CallsOf("retrieve")) = 1
    /\ Len(CallsOf("generate_answer")) = 1
    /\ FirstCall("retrieve") < FirstCall("generate_answer")
    /\ CallsOf("retrieve")[1].oid = strategy.oid
    /\ CallsOf("retrieve")[1].cls = strategy.cls
    /\ CallsOf("generate_answer")[1].oid = provider.oid
    /\ CallsOf("generate_answer")[1].cls = provider.cls

\* the call with outcome out returned an answer that starts with the tag of
\* provider class cls
TaggedOutcome(out, cls) ==
    /\ out.raised = "none"
    /\ out.result.some
    /\ StartsWith(out.result.val, ProviderTag(cls))

TaggedBy(cls) == TaggedOutcome(last, cls)

\* C3 as stated: every ask of a query that matches neither a catalog id nor
\* a catalog title calls retrieve and then generate_answer, once each, and
\* returns an answer tagged with the active provider.
C3_AlwaysRetrievesGeneratesAnswers ==
    (Asked /\ NoCatalogMatch) => (RetrievedThenGenerated /\ TaggedBy(provider.cls))

\* what C3 says of the state an ask of a non-matching query ends in, the
\* failure of an outside service allowed for
C3_AfterAsk ==
    /\ Len(CallsOf("retrieve")) = 1
    /\ CallsOf("retrieve")[1].oid = strategy.oid
    /\ CallsOf("retrieve")[1].cls = strategy.cls
    /\ FirstCall("retrieve") < FirstCall("find_relevant_chunks")
    /\ Len(CallsOf("generate_answer")) <= 1
    /\ last.raised = "none" =>
        /\ RetrievedThenGenerated
        /\ CallsOf("generate_answer")[1].context = CallsOf("retrieve")[1].context
        /\ TaggedBy(provider.cls)
    /\ last.raised # "none" =>
        /\ ~last.result.some
        /\ Len(CallsOf("generate_answer")) = 1 => Len(CallsOf("generator.generate_answer")) = 1

\* C3 amended: every ask of a query that matches neither a catalog id nor a
\* catalog title calls the active strategy's retrieve exactly once and first;
\* unless the content store lookup raises, it then calls the active
\* provider's generate_answer exactly once on the retrieved context; unless
\* that raises, it returns an answer tagged with the provider active at that
\* moment.  An exception of either call leaves ask without an answer.  The
\* ask that follows set_provider(name) with a known name is tagged with the
\* provider of that name.
C3_RetrievesGeneratesUnlessServiceFails ==
    [][(phase' = "ready" /\ last'.op = "ask" /\ NoCatalogMatch') =>
        /\ C3_AfterAsk'
        /\ (last.op = "set_provider" /\ last.name \in {"ollama", "openai", "gemini"}
            /\ last'.raised = "none")
                => TaggedOutcome(last', providers[last.name])]_vars

\* a non-matching query answered by a provider that was swapped in
C3_Witness ==
    /\ Asked
    /\ NoCatalogMatch
    /\ Len(courses) > 0
    /\ provider.cls = "OpenAIProvider"
    /\ RetrievedThenGenerated
    /\ TaggedBy("OpenAIProvider")
    /\ ~TaggedBy("OllamaProvider")

----------------------------------------------------------------------------
(* C4 *)

\* C4: once the controller is constructed, and after every set_strategy,
\* set_provider and ask, the controller's strategy is the same object as the
\* semantic handler's strategy, and the controller's provider the same object
\* as the semantic handler's provider.
C4_ReferencesAgree ==
    phase = "ready" =>
        /\ strategy # NoneObj
        /\ provider # NoneObj
        /\ handlers.semantic_handler.strategy = strategy
        /\ handlers.semantic_handler.provider = provider

\* both policies swapped away from the ones constructed, and an ask since
C4_Witness ==
    /\ Asked
    /\ strategy.cls = "WindowStrategy"
    /\ provider.cls = "GeminiProvider"
    /\ handlers.semantic_handler.strategy.cls = "WindowStrategy"
    /\ handlers.semantic_handler.provider.oid = provider.oid

----------------------------------------------------------------------------
(* C5 *)

\* the four references to the active policies
ActivePolicies ==
    <<strategy, provider, handlers.semantic_handler.strategy,
      handlers.semantic_handler.provider>>

\* C5: set_strategy with a name other than top_n, window, document,
\* hierarchical, and set_provider with a name other than ollama, openai,
\* gemini, prints the rejection and leaves the active strategy and provider,
\* on the controller and in the semantic handler, the objects they were.
C5_UnknownNameIsNoOp ==
    [][/\ (/\ phase = "ready"
           /\ last'.op = "set_strategy"
           /\ last'.name \notin {"top_n", "window", "document", "hierarchical"})
            => /\ ActivePolicies' = ActivePolicies
               /\ last'.printed = <<Message("Unknown strategy: {strategy_name}", last'.name)>>
       /\ (/\ phase = "ready"
           /\ last'.op = "set_provider"
           /\ last'.name \notin {"ollama", "openai", "gemini"})
            => /\ ActivePolicies' = ActivePolicies
               /\ last'.printed = <<Message("Unknown provider: {provider_name}", last'.name)>>
      ]_vars

\* a wrongly cased strategy name rejected while swapped-in policies are active
C5_Witness ==
    /\ phase = "ready"
    /\ last.op = "set_strategy"
    /\ last.name = "Window"
    /\ last.printed = <<Message("Unknown strategy: {strategy_name}", "Window")>>
    /\ strategy.cls = "DocumentStrategy"
    /\ provider.cls = "OpenAIProvider"

----------------------------------------------------------------------------
(* C6 *)

StageOrder == <<"CourseIdHandler", "CourseTitleHandler", "SemanticHandler">>

\* C6: in every call of the chain the stages run are the first one, two or
\* three of identifier, title, semantic, in that order and once each; every
\* stage but the last run returned no answer; the chain stops before the
\* semantic stage only on an answer; and an answer of the last stage run is
\* the answer of the call.
C6_StagesInOrder ==
    Routed =>
        /\ Len(Stages) \in 1..3
        /\ \A i \in 1..Len(Stages) : Stages[i].cls = StageOrder[i]
        /\ \A i \in 1..(Len(Stages) - 1) :
            ~TruthyStr(Stages[i].returned) /\ Stages[i].raised = "none"
        /\ Len(Stages) < 3 => TruthyStr(Stages[Len(Stages)].returned)
        /\ TruthyStr(Stages[Len(Stages)].returned)
            => last.result = Stages[Len(Stages)].returned /\ last.raised = "none"

\* the title stage answered: the identifier stage ran before it, the semantic
\* stage did not run
C6_Witness ==
    /\ Asked
    /\ Len(Stages) = 2
    /\ Stages[2].cls = "CourseTitleHandler"
    /\ last.result = Stages[2].returned
    /\ IdTokenPositions(last.question) # {}

----------------------------------------------------------------------------
(* C7 *)

\* C7: when the identifier stage and the title stage match nothing and the
\* chain is given no content store, the call returns the fixed fallback
\* message, raises nothing and calls no strategy, provider or store; and
\* whenever all three stages return no answer the call returns that message
\* and raises nothing.
C7_FallbackNeverRaises ==
    /\ (/\ phase = "ready"
        /\ last.op = "handle"
        /\ \A c \in 1..Len(courses) :
               ~LeftmostTokenIs(last.question, courses[c].id) /\ ~TitleIn(last.question, c))
           => /\ last.raised = "none"
              /\ last.result = Str(S_Sorry)
              /\ Len(Stages) = 3
              /\ Len(last.calls) = 3
    /\ (/\ Routed
        /\ Len(Stages) = 3
        /\ \A i \in 1..3 : Stages[i].raised = "none" /\ ~TruthyStr(Stages[i].returned))
           => last.raised = "none" /\ last.result = Str(S_Sorry)

\* the fallback message returned for a query with an id token the catalog
\* does not hold
C7_Witness ==
    /\ phase = "ready"
    /\ last.op = "handle"
    /\ Len(courses) > 0
    /\ IdTokenPositions(last.question) # {}
    /\ last.result = Str(S_Sorry)
    /\ last.raised = "none"

----------------------------------------------------------------------------
(* C8 *)

\* a line of the source that is not a record with id, title and description
Malformed(f) ==
    f.exists /\ \E i \in 1..Len(f.lines) :
        \/ f.lines[i].kind # "record"
        \/ ~({"id", "title", "description"} \subseteq DOMAIN f.lines[i].data)

\* C8: after construction on a missing or a malformed source the controller
\* is ready with an empty catalog, and a warning was printed.
C8_LoadFailsSoftly ==
    (phase # "new" /\ (~file.exists \/ Malformed(file)))
        => /\ phase = "ready"
           /\ courses = <<>>
           /\ last.raised = "none"
           /\ \E i \in 1..Len(last.printed) :
                last.printed[i].fmt = "Warning: {path} not found."

----------------------------------------------------------------------------
(* C9 *)

\* C9: a constructed controller always has a strategy of one of the four
\* classes and a provider of one of the three, on the controller and in the
\* semantic handler, never None; right after construction they are a
\* TopNStrategy and an OllamaProvider.
C9_OneStrategyOneProvider ==
    phase = "ready" =>
        /\ \A s \in {strategy, handlers.semantic_handler.strategy} :
            s.cls \in {"TopNStrategy", "WindowStrategy", "DocumentStrategy",
                       "HierarchicalStrategy"}
        /\ \A p \in {provider, handlers.semantic_handler.provider} :
            p.cls \in {"OllamaProvider", "OpenAIProvider", "GeminiProvider"}
        /\ last.op = "__init__" =>
            strategy.cls = "TopNStrategy" /\ provider.cls = "OllamaProvider"

\* an unknown provider name after swaps: a strategy and a provider stay active
C9_Witness ==
    /\ phase = "ready"
    /\ last.op = "set_provider"
    /\ last.name = "foo"
    /\ strategy.cls = "HierarchicalStrategy"
    /\ provider.cls = "GeminiProvider"

----------------------------------------------------------------------------
(* C10 *)

\* C10: the identifier stage answers exactly when the leftmost id token of
\* the query is the id of a catalog course; otherwise it returns no answer,
\* raises nothing and the title stage is run next, whatever other id tokens
\* the query holds.
C10_LeftmostTokenOnly ==
    Routed =>
        /\ Stages[1].cls = "CourseIdHandler"
        /\ Stages[1].raised = "none"
        /\ TruthyStr(Stages[1].returned)
            <=> \E c \in 1..Len(courses) : LeftmostTokenIs(last.question, courses[c].id)
        /\ ~TruthyStr(Stages[1].returned)
            => Len(Stages) >= 2 /\ Stages[2].cls = "CourseTitleHandler"

\* a later id token is a catalog id, the leftmost is not: the identifier
\* stage passed the query on
C10_Witness ==
    /\ Asked
    /\ SomeTokenInCatalog(last.question)
    /\ \A c \in 1..Len(courses) : ~LeftmostTokenIs(last.question, courses[c].id)
    /\ ~TruthyStr(Stages[1].returned)
    /\ Len(Stages) >= 2

----------------------------------------------------------------------------
(* C11 *)

\* the catalog courses whose title is in q, whatever the case of the letters
TitlesIn(q) ==
    LET lowered == Lower(q)
    IN  {c \in 1..Len(courses) : Contains(lowered, Lower(courses[c].title))}

\* s is the title stage's answer for catalog course c
IsTitleAnswerFor(s, c) ==
    /\ s.some
    /\ StartsWith(s.val, <<"F","o","u","n","d"," ","c","o","u","r","s","e"," ","b","y"," ","t","i","t","l","e",":"," ">> \o courses[c].title \o <<"."," ","I","D",":"," ">>
                         \o courses[c].id \o <<"."," ">>)
    /\ Contains(s.val, courses[c].description)

\* C11: whenever the title stage runs, it answers for the first course in
\* catalog order whose title is in the query (in any case), however long the
\* other titles in the query are, and that answer is the answer of the call;
\* it returns no answer, and the semantic stage runs, exactly when no catalog
\* title is in the query.
C11_FirstCatalogTitleWins ==
    (Routed /\ Len(Stages) >= 2) =>
        LET titles == TitlesIn(last.question)
        IN  /\ Stages[2].cls = "CourseTitleHandler"
            /\ titles # {} =>
                \E c \in titles :
                    /\ \A d \in titles : c <= d
                    /\ IsTitleAnswerFor(Stages[2].returned, c)
                    /\ last.result = Stages[2].returned
                    /\ Len(Stages) = 2
            /\ titles = {} =>
                /\ ~Stages[2].returned.some
                /\ Len(Stages) = 3

\* two titles in the query, the shorter one first in the catalog: the course
\* of the shorter title answers
C11_Witness ==
    /\ Asked
    /\ Len(courses) = 2
    /\ TitlesIn(last.question) = {1, 2}
    /\ Len(courses[1].title) < Len(courses[2].title)
    /\ Len(Stages) = 2
    /\ IsTitleAnswerFor(last.result, 1)
    /\ ~Contains(last.result.val, courses[2].id)

----------------------------------------------------------------------------
(* C12 *)

\* the semantic stage was reached in the last call, with a strategy and a
\* provider set in its handler
SemanticReached ==
    /\ Routed
    /\ Len(Stages) = 3
    /\ Stages[3].cls = "SemanticHandler"
    /\ handlers.semantic_handler.strategy # NoneObj
    /\ handlers.semantic_handler.provider # NoneObj

\* the last call surfaced the fixed fallback message
FallbackSurfaced == last.raised = "none" /\ last.result = Str(S_Sorry)

\* C12 as stated: whenever the semantic stage is reached with a strategy and
\* a provider set, it returns an answer, which is the answer of the call, and
\* the fallback message is not surfaced.
C12_AlwaysAnswersWhenConfigured ==
    SemanticReached =>
        /\ Stages[3].raised = "none"
        /\ TruthyStr(Stages[3].returned)
        /\ last.result = Stages[3].returned
        /\ ~FallbackSurfaced

\* C12 amended: whenever the semantic stage is reached with a strategy and a
\* provider set, then (a) given a content store it calls retrieve and, unless
\* the store lookup raises, generate_answer, and unless either raises it
\* returns what generate_answer returned, unchanged, as the answer of the
\* call, and the fallback message is not surfaced; an exception of either
\* leaves the call without an answer; (b) given no content store it calls
\* neither, returns no answer, and the fallback message is surfaced.
C12_AnswersVerbatimGivenStore ==
    SemanticReached =>
        /\ last.op = "ask" =>
            /\ store # NoneObj
            /\ Len(CallsOf("retrieve")) = 1
            /\ Stages[3].raised = "none" =>
                /\ Len(CallsOf("generate_answer")) = 1
                /\ TruthyStr(Stages[3].returned)
                /\ Stages[3].returned = CallsOf("generate_answer")[1].answer
                /\ last.result = Stages[3].returned
                /\ last.raised = "none"
                /\ ~FallbackSurfaced
            /\ Stages[3].raised # "none" =>
                /\ last.raised = Stages[3].raised
                /\ ~last.result.some
        /\ last.op = "handle" =>
            /\ Len(CallsOf("retrieve")) = 0
            /\ Len(CallsOf("generate_answer")) = 0
            /\ Stages[3].raised = "none"
            /\ ~Stages[3].returned.some
            /\ FallbackSurfaced

\* the semantic stage answered on an empty catalog: nothing was retrieved,
\* and the provider's answer is the answer of the call
C12_Witness ==
    /\ Asked
    /\ SemanticReached
    /\ Len(courses) = 0
    /\ Len(CallsOf("retrieve")) = 1
    /\ CallsOf("retrieve")[1].context = <<>>
    /\ last.raised = "none"
    /\ last.result = CallsOf("generate_answer")[1].answer
    /\ ~FallbackSurfaced

----------------------------------------------------------------------------
(* C14 *)

\* C14: ask leaves the catalog, the content store, the active strategy, the
\* active provider, the chain and its handlers as they were; and an ask that
\* follows an ask of the same query ends in the same stage, with the same
\* answer when that stage is the identifier or the title stage.
C14_AskRepeatable ==
    [][(phase = "ready" /\ last'.op = "ask") =>
        /\ courses' = courses
        /\ store' = store
        /\ strategy' = strategy
        /\ provider' = provider
        /\ chain' = chain
        /\ handlers' = handlers
        /\ (last.op = "ask" /\ last.question = last'.question) =>
            /\ Len(Stages') = Len(Stages)
            /\ Stages'[Len(Stages')].cls = Stages[Len(Stages)].cls
            /\ Len(Stages) < 3 =>
                /\ last'.result = last.result
                /\ last'.raised = "none"
                /\ last.result.some
      ]_vars

\* the same catalog id asked for twice in a row, under swapped-in policies
C14_Witness ==
    /\ Asked
    /\ last.again
    /\ Len(Stages) = 1
    /\ \E c \in 1..Len(courses) : Returned(courses[c].title)
    /\ strategy.cls = "WindowStrategy"
    /\ provider.cls = "GeminiProvider"

----------------------------------------------------------------------------
(* C15 *)

\* the handler objects hs, entered at head, are the identifier handler, then
\* the title handler, then the semantic handler, then nothing, each holding
\* the catalog cs
Topology(hs, head, cs) ==
    /\ head = "id_handler"
    /\ DOMAIN hs = {"id_handler", "title_handler", "semantic_handler"}
    /\ hs[head].cls = "CourseIdHandler"
    /\ hs[hs[head]._successor].cls = "CourseTitleHandler"
    /\ hs[hs[hs[head]._successor]._successor].cls = "SemanticHandler"
    /\ hs[hs[hs[head]._successor]._successor]._successor = None
    /\ \A h \in DOMAIN hs : hs[h]._courses = cs

\* the chain but for the two policy references of its semantic handler
Links(hs) == [h \in DOMAIN hs |-> <<hs[h].cls, hs[h]._successor, hs[h]._courses>>]

\* C15: set_strategy leaves the catalog, the content store, the active
\* provider (on the controller and in the semantic handler) and the chain's
\* handlers and links as they were, and set_provider likewise with the active
\* strategy; and after every operation of a constructed controller the chain
\* is identifier handler, title handler, semantic handler, end.
C15_SwapChangesOnlyItsPolicy ==
    [][/\ (phase = "ready" /\ last'.op = "set_strategy") =>
            /\ courses' = courses
            /\ store' = store
            /\ provider' = provider
            /\ handlers'.semantic_handler.provider = handlers.semantic_handler.provider
            /\ chain' = chain
            /\ Links(handlers') = Links(handlers)
       /\ (phase = "ready" /\ last'.op = "set_provider") =>
            /\ courses' = courses
            /\ store' = store
            /\ strategy' = strategy
            /\ handlers'.semantic_handler.strategy = handlers.semantic_handler.strategy
            /\ chain' = chain
            /\ Links(handlers') = Links(handlers)
       /\ phase' = "ready" => Topology(handlers', chain', courses')
      ]_vars

\* a strategy swapped in while a swapped-in provider is active, over a
\* catalog of two courses
C15_Witness ==
    /\ phase = "ready"
    /\ last.op = "set_strategy"
    /\ last.name = "hierarchical"
    /\ strategy.cls = "HierarchicalStrategy"
    /\ provider.cls = "OpenAIProvider"
    /\ Len(courses) = 2
    /\ Topology(handlers, chain, courses)

----------------------------------------------------------------------------
(* C16 *)

\* the calls of fn in the log of the call with outcome out
CallsIn(out, fn) == SelectSeq(out.calls, LAMBDA e : e.fn = fn)

\* the call with outcome out made its one retrieve with one lookup of the k
\* best chunks for the question, and retrieve ended as the lookup did
OneLookup(out, k) ==
    /\ Len(CallsIn(out, "retrieve")) = 1
    /\ Len(CallsIn(out, "find_relevant_chunks")) = 1
    /\ CallsIn(out, "find_relevant_chunks")[1].query = out.question
    /\ CallsIn(out, "find_relevant_chunks")[1].k = k
    /\ CallsIn(out, "retrieve")[1].raised = CallsIn(out, "find_relevant_chunks")[1].raised
    /\ CallsIn(out, "retrieve")[1].context = CallsIn(out, "find_relevant_chunks")[1].returned

----------------------------------------------------------------------------
(* C17 *)

\* C17: retrieve of the active strategy, whichever of the four variants it
\* is, called without a content store returns the empty sequence, raises
\* nothing and makes no call of its own.
C17_NoStoreNoLookup ==
    (phase = "ready" /\ last.op = "retrieve") =>
        /\ last.raised = "none"
        /\ last.context = <<>>
        /\ Len(last.calls) = 1
        /\ last.calls[1].fn = "retrieve"
        /\ last.calls[1].cls = strategy.cls
        /\ last.calls[1].raised = "none"
        /\ Len(CallsOf("find_relevant_chunks")) = 0

\* the document strategy over an indexed catalog, called without the store
C17_Witness ==
    /\ phase = "ready"
    /\ last.op = "retrieve"
    /\ strategy.cls = "DocumentStrategy"
    /\ Len(store.chunks) = 2
    /\ last.context = <<>>
    /\ last.raised = "none"

----------------------------------------------------------------------------
(* C18 *)

DigitSeq == <<"0","1","2","3","4","5","6","7","8","9">>

\* the number a digit stands for
DigitValue(c) == (CHOOSE n \in 1..10 : DigitSeq[n] = c) - 1

\* the number a string of four digits stands for
NumberOf(t) ==
    1000 * DigitValue(t[1]) + 100 * DigitValue(t[2]) + 10 * DigitValue(t[3])
    + DigitValue(t[4])

\* q[i..j] is a whole run of digits, letters and underscores: none of them
\* comes right before it or right after it
WholeRun(q, i, j) ==
    /\ 1 <= i
    /\ i <= j
    /\ j <= Len(q)
    /\ \A n \in i..j : IsWord(q[n])
    /\ (i = 1 \/ ~IsWord(q[i - 1]))
    /\ (j = Len(q) \/ ~IsWord(q[j + 1]))

\* the whole runs of q that are four digits
FourDigitRuns(q) ==
    {SubSeq(q, i, i + 3) : i \in {n \in 1..(Len(q) - 3) :
        WholeRun(q, n, n + 3) /\ \A m \in n..(n + 3) : q[m] \in Digits}}

\* the four-digit runs of q with a value in the valid range
RangeIdRuns(q) == {t \in FourDigitRuns(q) : NumberOf(t) >= 1000 /\ NumberOf(t) <= 4999}

\* C18: the identifier stage answers only for a catalog course whose id is a
\* whole run of exactly four digits of the query with a value in 1000-4999;
\* it does answer when the query has one such run and it is a catalog id; and
\* when the query has no such run (its digits are out of that range, or sit
\* in a longer run of digits, letters and underscores) the stage returns no
\* answer and the title stage is run, whatever ids the catalog holds.
C18_IdTokenFormat ==
    Routed =>
        LET runs == RangeIdRuns(last.question)
        IN  /\ TruthyStr(Stages[1].returned) =>
                \E c \in 1..Len(courses) :
                    /\ courses[c].id \in runs
                    /\ StartsWith(Stages[1].returned.val,
                                  <<"C","o","u","r","s","e"," ">> \o courses[c].id \o <<":"," ">>)
            /\ (/\ Cardinality(runs) = 1
                /\ \E c \in 1..Len(courses) : courses[c].id \in runs)
                    => TruthyStr(Stages[1].returned)
            /\ runs = {} =>
                /\ ~Stages[1].returned.some
                /\ Stages[1].raised = "none"
                /\ Len(Stages) >= 2
                /\ Stages[2].cls = "CourseTitleHandler"

\* the only digits of the query are the id of a catalog course, as a whole
\* run of four, but out of the range: the identifier stage passed the query on
C18_Witness ==
    /\ Asked
    /\ RangeIdRuns(last.question) = {}
    /\ \E c \in 1..Len(courses) :
        /\ FourDigitRuns(last.question) = {courses[c].id}
        /\ NumberOf(courses[c].id) > 4999
    /\ ~Stages[1].returned.some
    /\ Len(Stages) >= 2
    /\ Stages[2].cls = "CourseTitleHandler"

----------------------------------------------------------------------------
(* C13 *)

\* main() is inside chatbot.ask
InFlight == main.pc \in {"handle", "retrieve", "generate"}

\* every retrieve in the log calls was made by the strategy object, and every
\* generate_answer by the provider object, that the log's first entry names
\* as active when the ask was entered
PairUsed(calls) ==
    /\ calls[1].fn = "ask"
    /\ \A i \in 2..Len(calls) :
        /\ calls[i].fn = "retrieve" =>
            calls[i].oid = calls[1].strategy.oid /\ calls[i].cls = calls[1].strategy.cls
        /\ calls[i].fn = "generate_answer" =>
            calls[i].oid = calls[1].provider.oid /\ calls[i].cls = calls[1].provider.cls

\* C13: while an ask is under way in the interactive loop, no swap takes
\* effect and no other ask is entered: the active strategy and provider, on
\* the controller and in the semantic handler, stay the pair that was active
\* when the ask was entered, the object whose retrieve runs is that strategy
\* and the object whose generate_answer runs is that provider, and the ask
\* that completes did its retrieval and its generation with that pair.
C13_SwapAtomicWithAsk ==
    [][(phase = "ready" /\ InFlight) =>
        /\ ActivePolicies = <<main.calls[1].strategy, main.calls[1].provider,
                              main.calls[1].strategy, main.calls[1].provider>>
        /\ ActivePolicies' = ActivePolicies
        /\ main.pc = "retrieve" => main.using = main.calls[1].strategy
        /\ main.pc = "generate" => main.using = main.calls[1].provider
        /\ InFlight' =>
            /\ main'.query = main.query
            /\ main'.calls[1] = main.calls[1]
            /\ PairUsed(main'.calls \o main'.inner)
        /\ (~InFlight' /\ last'.op = "ask") =>
            /\ last'.question = main.query
            /\ last'.calls[1] = main.calls[1]
            /\ PairUsed(last'.calls)
      ]_vars

\* an ask completed by the semantic stage after both policies were swapped:
\* retrieval by the window strategy, generation by the OpenAI provider
C13_Witness ==
    /\ phase = "ready"
    /\ main.pc = "input"
    /\ last.op = "ask"
    /\ last.raised = "none"
    /\ PairUsed(last.calls)
    /\ last.calls[1].strategy.cls = "WindowStrategy"
    /\ last.calls[1].provider.cls = "OpenAIProvider"
    /\ Len(CallsOf("retrieve")) = 1
    /\ CallsOf("retrieve")[1].cls = "WindowStrategy"
    /\ Len(CallsOf("generate_answer")) = 1
    /\ CallsOf("generate_answer")[1].cls = "OpenAIProvider"

----------------------------------------------------------------------------
(* C19 *)

IsBlankLine(l) == \A i \in 1..Len(l) : l[i] \in WhiteSpace

IsExitLine(l) == Lower(Strip(l)) = <<"e","x","i","t">>

\* l is the command set strategy <name> (what = strategy) or set provider
\* <name> (what = provider), in whatever case
IsSetLine(l, what) == StartsWith(Lower(Strip(l)), <<"s","e","t"," ">> \o what \o <<" ">>)

\* l begins like a set command and is neither of the two
IsOtherSetLine(l) ==
    /\ StartsWith(Lower(Strip(l)) \o <<" ">>, <<"s","e","t"," ">>)
    /\ ~IsSetLine(l, <<"s","t","r","a","t","e","g","y">>)
    /\ ~IsSetLine(l, <<"p","r","o","v","i","d","e","r">>)

\* the name typed last on line l
TypedName(l) == NameOf(LastWord(l))

\* this step is the loop reading the line main'.line and dealing with it, up
\* to the call of ask for a question
ReadsLine ==
    /\ phase = "ready"
    /\ main.pc = "input"
    /\ last'.op \in {"continue", "exit", "set_strategy", "set_provider", "input"}
    /\ last'.raised = "none"

\* this step is the ask of the question main.query coming to its end
AskEnds == phase = "ready" /\ InFlight /\ ~InFlight' /\ last'.op = "ask"

\* the step printed Goodbye! and left the loop, calling nothing
HandledAsExit ==
    /\ main'.pc = "done"
    /\ last'.op = "exit"
    /\ last'.printed = <<Message("Goodbye!", "")>>
    /\ ActivePolicies' = ActivePolicies

\* the step called set_strategy (op = set_strategy) or set_provider (op =
\* set_provider) with the name typed last, and went back to input() without
\* entering ask
HandledAsSwap(op) ==
    /\ last'.op = op
    /\ last'.name = TypedName(main'.line)
    /\ Len(last'.printed) = 1
    /\ main'.pc = "input"

\* the step entered ask with the line, stripped, and called neither swap
HandledAsQuestion ==
    /\ main'.pc = "handle"
    /\ main'.query = Strip(main'.line)
    /\ last'.op = "input"
    /\ ActivePolicies' = ActivePolicies

\* the step went back to input() having called nothing
HandledAsBlank ==
    /\ main'.pc = "input"
    /\ last'.op = "continue"
    /\ last'.printed = <<>>
    /\ ActivePolicies' = ActivePolicies

\* a swap called with a name that is none of the known ones, as spelled,
\* printed the rejection and changed no policy
UnknownNamesRejected ==
    /\ (last'.op = "set_strategy"
        /\ last'.name \notin {"top_n", "window", "document", "hierarchical"})
            => /\ last'.printed = <<Message("Unknown strategy: {strategy_name}", last'.name)>>
               /\ ActivePolicies' = ActivePolicies
    /\ (last'.op = "set_provider" /\ last'.name \notin {"ollama", "openai", "gemini"})
            => /\ last'.printed = <<Message("Unknown provider: {provider_name}", last'.name)>>
               /\ ActivePolicies' = ActivePolicies

\* C19 as stated: every line read is dealt with as exit, as a swap or as a
\* question; a swap with an unknown or wrongly cased name prints a message
\* and changes no policy; and a line with an unrecognized subcommand ends
\* with a message printed and no policy changed.
C19_EveryLineExitSwapOrQuestion ==
    [][/\ ReadsLine =>
            /\ \/ IsExitLine(main'.line) /\ HandledAsExit
               \/ IsSetLine(main'.line, <<"s","t","r","a","t","e","g","y">>) /\ HandledAsSwap("set_strategy")
               \/ IsSetLine(main'.line, <<"p","r","o","v","i","d","e","r">>) /\ HandledAsSwap("set_provider")
               \/ HandledAsQuestion
            /\ UnknownNamesRejected
       /\ (AskEnds /\ IsOtherSetLine(main.line)) =>
            /\ Len(last'.printed) > 0
            /\ ActivePolicies' = ActivePolicies
      ]_vars

\* C19 amended: a line of nothing but white space is skipped, with nothing
\* called and nothing printed; exit, in any case, prints Goodbye! and ends the
\* loop; a line that begins, in any case, with "set strategy " or "set
\* provider " calls that swap alone, with the last word of the line as the
\* name, and never ask; every other line, an unrecognized subcommand
\* included, is passed to ask alone as a question.  A swap with an unknown
\* or wrongly cased name prints the rejection and changes no policy.  An ask
\* changes no policy and ends with the answer printed, unless an outside
\* service raised: then nothing is printed and the loop ends.
C19_LineHandledByItsKind ==
    [][/\ ReadsLine =>
            /\ IsBlankLine(main'.line) => HandledAsBlank
            /\ (~IsBlankLine(main'.line) /\ IsExitLine(main'.line)) => HandledAsExit
            /\ IsSetLine(main'.line, <<"s","t","r","a","t","e","g","y">>) =>
                /\ HandledAsSwap("set_strategy")
                /\ provider' = provider
                /\ handlers'.semantic_handler.provider = handlers.semantic_handler.provider
            /\ IsSetLine(main'.line, <<"p","r","o","v","i","d","e","r">>) =>
                /\ HandledAsSwap("set_provider")
                /\ strategy' = strategy
                /\ handlers'.semantic_handler.strategy = handlers.semantic_handler.strategy
            /\ (/\ ~IsBlankLine(main'.line)
                /\ ~IsExitLine(main'.line)
                /\ ~IsSetLine(main'.line, <<"s","t","r","a","t","e","g","y">>)
                /\ ~IsSetLine(main'.line, <<"p","r","o","v","i","d","e","r">>)) => HandledAsQuestion
            /\ UnknownNamesRejected
       /\ AskEnds =>
            /\ last'.question = Strip(main.line)
            /\ ActivePolicies' = ActivePolicies
            /\ last'.raised = "none" =>
                /\ last'.printed = <<Message("Bot: {response}\n", "")>>
                /\ last'.result.some
                /\ main'.pc = "input"
            /\ last'.raised # "none" =>
                /\ last'.printed = <<>>
                /\ main'.pc = "done"
      ]_vars

\* a wrongly cased strategy name typed after a command in capitals had put
\* the document strategy in: rejected, the document strategy still active
C19_Witness ==
    /\ phase = "ready"
    /\ main.pc = "input"
    /\ main.line = <<"s","e","t"," ","s","t","r","a","t","e","g","y"," ","W","i","n","d","o","w">>
    /\ last.op = "set_strategy"
    /\ last.name = "Window"
    /\ last.printed = <<Message("Unknown strategy: {strategy_name}", "Window")>>
    /\ strategy.cls = "DocumentStrategy"
    /\ handlers.semantic_handler.strategy = strategy

=============================================================================
